---- MODULE Spec2Model ----
(***************************************************************************)
(* Model of canvas/package.py: Package (identity, hash key, parse,         *)
(* to_pkg_spec), PackageSet (add, discard, difference, union, update) and  *)
(* Repository.to_kickstart.                                                *)
(*                                                                         *)
(* Text is modelled as a sequence of one-character strings, so that        *)
(* formatting and regular-expression matching are computed, not assumed.   *)
(* Python's None is the value None below, which is no text.                *)
(***************************************************************************)
EXTENDS Integers, Sequences, FiniteSets, TLC

VARIABLES sets, pkg, repo, call, ret, err, old

vars == <<sets, pkg, repo, call, ret, err, old>>

None == <<"None">>

NoErr == "ok"

ACTION_PIN == 128

ACTION_EXCLUDE == 2

ACTION_INCLUDE == 1

(***************************************************************************)
(* Bounds and input universes.                                             *)
(***************************************************************************)
MaxArgs == 2

MaxNameLen == 1

SetIds == {"s", "t"}

Txt(c) == <<c>>

(* Package(name=..., arch=..., version=...): the keyword constructor.      *)
Package(n, e, v, r, a, z) ==
  [type |-> "Package", name |-> n, epoch |-> e, version |-> v,
   release |-> r, arch |-> a, action |-> z]

(* Package(): every field at its keyword default.                          *)
NoPkg == Package(None, None, None, None, None, ACTION_INCLUDE)

(* Python values tagged with their type, for the fields of a Repository.  *)
PyNone == [type |-> "NoneType"]

PyList(xs) == [type |-> "list", items |-> xs]

PyInt(n) == [type |-> "int", val |-> n]

PyBool(b) == [type |-> "bool", val |-> b]

(* Repository(): every field at its keyword default.                       *)
NoRepo ==
  [type |-> "Repository", name |-> PyNone, stub |-> PyNone,
   baseurl |-> PyNone, mirrorlist |-> PyNone, metalink |-> PyNone,
   gpgkey |-> PyNone, enabled |-> PyNone, gpgcheck |-> PyNone,
   cost |-> PyNone, exclude |-> PyNone, install |-> PyNone,
   exclude_packages |-> PyNone, include_packages |-> PyNone,
   priority |-> PyNone, meta_expired |-> PyNone]

(* Packages offered to the PackageSet operations: name f without arch,    *)
(* with arch x (in two versions) and with arch i, and an unrelated name g. *)
SetPackages ==
  {Package(Txt("f"), None, None, None, a, ACTION_INCLUDE) :
      a \in {None, Txt("x"), Txt("i")}}
  \cup {Package(Txt("f"), None, Txt("1"), None, Txt("x"), ACTION_INCLUDE),
        Package(Txt("g"), None, None, None, None, ACTION_INCLUDE)}

(* A value that is neither a Package nor a PackageSet.                     *)
Junk == [type |-> "str", val |-> Txt("f")]

IsPackage(x) == x.type = "Package"

IsPackageSet(x) == x.type = "PackageSet"

(***************************************************************************)
(* Package identity.                                                       *)
(***************************************************************************)
PkgEq(a, b) ==
  IF IsPackage(b)
  THEN IF a.arch = None \/ b.arch = None
       THEN a.name = b.name
       ELSE a.name = b.name /\ a.arch = b.arch
  ELSE FALSE

(* The key __hash__ hashes: name, or '{0}.{1}'.format(name, arch).         *)
HashKey(p) ==
  IF p.arch = None THEN p.name ELSE p.name \o <<".">> \o p.arch

(***************************************************************************)
(* PackageSet: the list _set and its operations.  Each operation yields    *)
(* the new list, the returned value and the error raised (NoErr if none).  *)
(***************************************************************************)
Contains(s, item) == \E i \in 1..Len(s) : PkgEq(s[i], item)

(* Faulty variant: membership by identical fields, not Package equality.   *)
PSAdd_ExactMembership(s, item) ==
  IF ~IsPackage(item) THEN [set |-> s, err |-> "TypeError"]
  ELSE IF \A i \in 1..Len(s) : s[i] # item
       THEN [set |-> Append(s, item), err |-> NoErr]
  ELSE [set |-> s, err |-> NoErr]

(* Faulty variant: an equal entry is replaced whatever its arch is.        *)
PSAdd_AlwaysReplace(s, item) ==
  IF ~IsPackage(item) THEN [set |-> s, err |-> "TypeError"]
  ELSE IF ~Contains(s, item) THEN [set |-> Append(s, item), err |-> NoErr]
  ELSE IF item.arch # None
       THEN [set |-> [i \in 1..Len(s) |->
                        IF s[i].name = item.name THEN item ELSE s[i]],
             err |-> NoErr]
       ELSE [set |-> s, err |-> NoErr]

PSAdd(s, item) ==
  IF ~IsPackage(item) THEN [set |-> s, err |-> "TypeError"]
  ELSE IF ~Contains(s, item) THEN [set |-> Append(s, item), err |-> NoErr]
  ELSE IF item.arch # None
       THEN [set |-> [i \in 1..Len(s) |->
                        IF s[i].name = item.name /\ s[i].arch = None
                        THEN item ELSE s[i]],
             err |-> NoErr]
       ELSE [set |-> s, err |-> NoErr]

(* list.remove: drops the first equal element; ValueError is swallowed.    *)
ListRemove(s, item) ==
  IF ~Contains(s, item) THEN s
  ELSE LET k == CHOOSE i \in 1..Len(s) :
                  PkgEq(s[i], item) /\ \A j \in 1..(i-1) : ~PkgEq(s[j], item)
       IN SubSeq(s, 1, k-1) \o SubSeq(s, k+1, Len(s))

PSDiscard(s, item) ==
  IF ~IsPackage(item) THEN [set |-> s, err |-> "TypeError"]
  ELSE [set |-> ListRemove(s, item), err |-> NoErr]

(* PackageSet(initvalue): add every element in order (all are Packages).   *)
RECURSIVE AddAll(_, _)
AddAll(u, xs) ==
  IF xs = <<>> THEN u ELSE AddAll(PSAdd(u, Head(xs)).set, Tail(xs))

PackageSetInit(initvalue) == AddAll(<<>>, initvalue)

(* for x in xs: if not x in o: u.add(x)                                    *)
RECURSIVE AddUnique(_, _, _)
AddUnique(u, xs, o) ==
  IF xs = <<>> THEN u
  ELSE AddUnique(IF ~Contains(o, Head(xs)) THEN PSAdd(u, Head(xs)).set ELSE u,
                 Tail(xs), o)

(* Faulty variant: the second loop tests membership in other, not self.    *)
PSDifference_WrongSet(s, other) ==
  IF ~IsPackageSet(other) THEN [ret |-> None, err |-> "TypeError"]
  ELSE [ret |-> <<AddUnique(PackageSetInit(<<>>), s, other.set),
                  AddUnique(PackageSetInit(<<>>), other.set, other.set)>>,
        err |-> NoErr]

PSDifference(s, other) ==
  IF ~IsPackageSet(other) THEN [ret |-> None, err |-> "TypeError"]
  ELSE [ret |-> <<AddUnique(PackageSetInit(<<>>), s, other.set),
                  AddUnique(PackageSetInit(<<>>), other.set, s)>>,
        err |-> NoErr]

(* Faulty variant: an argument that is no PackageSet is skipped silently.  *)
RECURSIVE UnionLoop_SkipOthers(_, _)
UnionLoop_SkipOthers(u, args) ==
  IF args = <<>> THEN [ret |-> u, err |-> NoErr]
  ELSE IF ~IsPackageSet(Head(args)) THEN UnionLoop_SkipOthers(u, Tail(args))
  ELSE UnionLoop_SkipOthers(AddAll(u, Head(args).set), Tail(args))

RECURSIVE UnionLoop(_, _)
UnionLoop(u, args) ==
  IF args = <<>> THEN [ret |-> u, err |-> NoErr]
  ELSE IF ~IsPackageSet(Head(args)) THEN [ret |-> None, err |-> "TypeError"]
  ELSE UnionLoop(AddAll(u, Head(args).set), Tail(args))

(* Faulty variant: the arguments are concatenated without going via add.   *)
RECURSIVE Concat(_, _)
Concat(u, args) ==
  IF args = <<>> THEN u ELSE Concat(u \o Head(args).set, Tail(args))

PSUnion_Concat(s, args) ==
  IF Len(args) = 0 THEN [ret |-> None, err |-> "Exception"]
  ELSE IF \E i \in 1..Len(args) : ~IsPackageSet(args[i])
       THEN [ret |-> None, err |-> "TypeError"]
  ELSE [ret |-> Concat(s, args), err |-> NoErr]

PSUnion(s, args) ==
  IF Len(args) = 0 THEN [ret |-> None, err |-> "Exception"]
  ELSE UnionLoop(PackageSetInit(s), args)

(* update evaluates the undefined name 'other' before anything else.       *)
PSUpdate(s, item) == [set |-> s, err |-> "NameError"]

(***************************************************************************)
(* Specification of the PackageSet operations.  s is the receiving set of  *)
(* every operation; t is a second PackageSet, filled through add, that is  *)
(* passed as an argument (as is s itself).                                 *)
(***************************************************************************)
Receiver == "s"

Items == SetPackages \cup {Junk}

ArgRefs == SetIds \cup {"junk"}

ArgLists == UNION {[1..n -> ArgRefs] : n \in 0..MaxArgs}

Resolve(ref) ==
  IF ref \in SetIds THEN [type |-> "PackageSet", set |-> sets[ref]] ELSE Junk

InitSet ==
  /\ sets = [i \in SetIds |-> <<>>]
  /\ pkg = NoPkg
  /\ repo = NoRepo
  /\ call = [op |-> "init"]
  /\ ret = None
  /\ err = NoErr
  /\ old = [i \in SetIds |-> <<>>]

Add(self, item) ==
  LET r == PSAdd(sets[self], item) IN
  /\ sets' = [sets EXCEPT ![self] = r.set]
  /\ call' = [op |-> "add", self |-> self, item |-> item]
  /\ ret' = None
  /\ err' = r.err
  /\ old' = sets
  /\ UNCHANGED <<pkg, repo>>

Discard(self, item) ==
  LET r == PSDiscard(sets[self], item) IN
  /\ sets' = [sets EXCEPT ![self] = r.set]
  /\ call' = [op |-> "discard", self |-> self, item |-> item]
  /\ ret' = None
  /\ err' = r.err
  /\ old' = sets
  /\ UNCHANGED <<pkg, repo>>

Update(self, item) ==
  LET r == PSUpdate(sets[self], item) IN
  /\ sets' = [sets EXCEPT ![self] = r.set]
  /\ call' = [op |-> "update", self |-> self, item |-> item]
  /\ ret' = None
  /\ err' = r.err
  /\ old' = sets
  /\ UNCHANGED <<pkg, repo>>

Difference(self, other) ==
  LET r == PSDifference(sets[self], Resolve(other)) IN
  /\ call' = [op |-> "difference", self |-> self, other |-> other]
  /\ ret' = r.ret
  /\ err' = r.err
  /\ old' = sets
  /\ UNCHANGED <<sets, pkg, repo>>

Union(self, args) ==
  LET r == PSUnion(sets[self], [i \in 1..Len(args) |-> Resolve(args[i])]) IN
  /\ call' = [op |-> "union", self |-> self, args |-> args]
  /\ ret' = r.ret
  /\ err' = r.err
  /\ old' = sets
  /\ UNCHANGED <<sets, pkg, repo>>

NextSet ==
  \/ \E self \in SetIds, item \in Items : Add(self, item)
  \/ \E item \in Items : Discard(Receiver, item)
  \/ \E item \in Items : Update(Receiver, item)
  \/ \E other \in ArgRefs : Difference(Receiver, other)
  \/ \E args \in ArgLists : Union(Receiver, args)

SpecSet == InitSet /\ [][NextSet]_vars

(***************************************************************************)
(* RE_PACKAGE.match over a text s (1-based positions), computed the way    *)
(* the backtracking matcher settles it: every group after the name is      *)
(* optional, so each takes its longest match or nothing.                   *)
(*   ([+~])?([^#@:\s]+)(?:(?:#(\d+))?@([^-]+)-([^:]))?(?::(\w+))?          *)
(***************************************************************************)
Digits == {"0", "1", "2", "3", "4", "5", "6", "7", "8", "9"}

Letters ==
  {"a", "b", "c", "d", "e", "f", "g", "h", "i", "j", "k", "l", "m",
   "n", "o", "p", "q", "r", "s", "t", "u", "v", "w", "x", "y", "z",
   "A", "B", "C", "D", "E", "F", "G", "H", "I", "J", "K", "L", "M",
   "N", "O", "P", "Q", "R", "S", "T", "U", "V", "W", "X", "Y", "Z"}

WordChars == Letters \cup Digits \cup {"_"}

Spaces == {" ", "\t", "\n", "\r", "\f"}

NotNameChars == {"#", "@", ":"} \cup Spaces

At(s, i, c) == i <= Len(s) /\ s[i] = c

(* Length of the longest run of characters of S starting at position i.    *)
RECURSIVE RunIn(_, _, _)
RunIn(s, i, S) ==
  IF i <= Len(s) /\ s[i] \in S THEN 1 + RunIn(s, i + 1, S) ELSE 0

(* Length of the longest run of characters outside S starting at i.        *)
RECURSIVE RunNotIn(_, _, _)
RunNotIn(s, i, S) ==
  IF i <= Len(s) /\ s[i] \notin S THEN 1 + RunNotIn(s, i + 1, S) ELSE 0

NoEvr(p) == [epoch |-> None, version |-> None, release |-> None, end |-> p]

(* @([^-]+)-([^:]) at position q, after an epoch e (or None).              *)
MatchVersionRelease(s, q, e, p) ==
  LET v == RunNotIn(s, q + 1, {"-"}) IN
  IF /\ At(s, q, "@")
     /\ v >= 1
     /\ At(s, q + 1 + v, "-")
     /\ q + 2 + v <= Len(s)
     /\ s[q + 2 + v] # ":"
  THEN [epoch |-> e, version |-> SubSeq(s, q + 1, q + v),
        release |-> <<s[q + 2 + v]>>, end |-> q + 3 + v]
  ELSE NoEvr(p)

(* (?:(?:#(\d+))?@([^-]+)-([^:]))? at position p.                          *)
MatchEvr(s, p) ==
  IF At(s, p, "#")
  THEN LET d == RunIn(s, p + 1, Digits) IN
       IF d >= 1
       THEN MatchVersionRelease(s, p + 1 + d, SubSeq(s, p + 1, p + d), p)
       ELSE NoEvr(p)
  ELSE MatchVersionRelease(s, p, None, p)

(* (?::(\w+))? at position p.                                              *)
MatchArch(s, p) ==
  LET w == RunIn(s, p + 1, WordChars) IN
  IF At(s, p, ":") /\ w >= 1 THEN SubSeq(s, p + 1, p + w) ELSE None

RE_PACKAGE(s) ==
  LET signed == /\ Len(s) >= 1 /\ s[1] \in {"+", "~"}
                /\ RunNotIn(s, 2, NotNameChars) >= 1
      start == IF signed THEN 2 ELSE 1
      n == RunNotIn(s, start, NotNameChars)
      evr == MatchEvr(s, start + n)
  IN IF n = 0 THEN [matched |-> FALSE]
     ELSE [matched |-> TRUE,
           g1 |-> IF signed THEN <<s[1]>> ELSE None,
           g2 |-> SubSeq(s, start, start + n - 1),
           g3 |-> evr.epoch, g4 |-> evr.version, g5 |-> evr.release,
           g6 |-> MatchArch(s, evr.end)]

(***************************************************************************)
(* Package.parse, the one-argument constructor and to_pkg_spec.  A dict is *)
(* a function on the keys it holds; a str is a text.                       *)
(***************************************************************************)
IsDict(data) == data.type = "dict"

IsStr(data) == data.type = "str"

Dict(d) == [type |-> "dict", val |-> d]

Str(t) == [type |-> "str", val |-> t]

Get(d, k, default) == IF k \in DOMAIN d THEN d[k] ELSE default

PkgParseDict(p, d) ==
  [p EXCEPT !.name = Get(d, "n", p.name),
            !.epoch = Get(d, "e", p.epoch),
            !.version = Get(d, "v", p.version),
            !.release = Get(d, "r", p.release),
            !.arch = Get(d, "a", p.arch),
            !.action = Get(d, "z", ACTION_INCLUDE)]

PkgParseStr(p, t) ==
  LET m == RE_PACKAGE(t) IN
  IF m.matched
  THEN [p EXCEPT !.action = IF m.g1 = <<"~">> THEN ACTION_EXCLUDE
                            ELSE ACTION_INCLUDE,
                 !.name = m.g2, !.epoch = m.g3, !.version = m.g4,
                 !.release = m.g5, !.arch = m.g6]
  ELSE p

PkgParse(p, data) ==
  IF IsDict(data) THEN PkgParseDict(p, data.val)
  ELSE IF IsStr(data) THEN PkgParseStr(p, data.val)
  ELSE p

(* Package(arg): keyword defaults, then parse(arg).                        *)
PkgNew(data) == PkgParse(NoPkg, data)

(* to_pkg_spec: evr starts as None, and None += str raises TypeError.      *)
PkgToPkgSpec(p) ==
  IF p.name = None THEN [ret |-> <<>>, err |-> NoErr]
  ELSE IF p.version # None /\ p.epoch = None
       THEN [ret |-> None, err |-> "TypeError"]
  ELSE LET evr0 == IF p.epoch # None THEN p.epoch \o <<":">> ELSE <<>>
           evr == IF p.version # None /\ p.release # None
                  THEN evr0 \o p.version \o <<"-">> \o p.release
                  ELSE IF p.version # None THEN evr0 \o p.version
                  ELSE evr0
           f == p.name \o evr
       IN [ret |-> IF p.arch # None THEN f \o <<".">> \o p.arch ELSE f,
           err |-> NoErr]

(***************************************************************************)
(* Specification of one Package object: parse calls with spec strings and  *)
(* compact dictionaries, to_pkg_spec, and rebuilding a Package from the    *)
(* string to_pkg_spec just returned.                                       *)
(***************************************************************************)
(* <name>#<epoch>@<version>-<release>:<arch>                               *)
SpecString(n, e, v, r, a) ==
  n \o <<"#">> \o e \o <<"@">> \o v \o <<"-">> \o r \o <<":">> \o a

WellFormed ==
  {SpecString(n, Txt("1"), Txt("2"), r, Txt("x")) :
      n \in {Txt("f"), Txt("g")}, r \in {Txt("3"), <<"3", "a">>}}

SpecStrings ==
  WellFormed
  \cup {sign \o Txt("f") \o evr \o arch :
          sign \in {<<>>, Txt("~"), Txt("+")},
          evr \in {<<>>, <<"@", "2", "-", "3">>},
          arch \in {<<>>, <<":", "x">>}}
  \cup {<<>>, Txt("~"), <<"f", "@", "2">>, <<"f", "#", "@", "2", "-", "3">>}

DictKeys == {"n", "e", "v", "r", "a", "z"}

DictText ==
  [n |-> Txt("g"), e |-> Txt("1"), v |-> Txt("2"), r |-> Txt("3"),
   a |-> Txt("x")]

(* The dictionaries holding no key, one key or all six keys, with z one of *)
(* the action values EXCLUDE and PIN.                                      *)
Dicts ==
  {[k \in K |-> IF k = "z" THEN z ELSE DictText[k]] :
      K \in {{}, DictKeys} \cup {{k} : k \in DictKeys},
      z \in {ACTION_EXCLUDE, ACTION_PIN}}

InitPkg ==
  /\ pkg = NoPkg
  /\ sets = [i \in SetIds |-> <<>>]
  /\ repo = NoRepo
  /\ call = [op |-> "init"]
  /\ ret = None
  /\ err = NoErr
  /\ old = NoPkg

Parse(data) ==
  /\ pkg' = PkgParse(pkg, data)
  /\ call' = [op |-> "parse", data |-> data]
  /\ ret' = None
  /\ err' = NoErr
  /\ old' = pkg
  /\ UNCHANGED <<sets, repo>>

ToPkgSpec ==
  LET r == PkgToPkgSpec(pkg) IN
  /\ call' = [op |-> "to_pkg_spec"]
  /\ ret' = r.ret
  /\ err' = r.err
  /\ old' = pkg
  /\ UNCHANGED <<pkg, sets, repo>>

(* Package(p.to_pkg_spec()) for the string just returned.                  *)
Rebuild ==
  /\ call.op = "to_pkg_spec" /\ err = NoErr
  /\ pkg.name # None => Len(pkg.name) <= MaxNameLen
  /\ pkg' = PkgNew(Str(ret))
  /\ call' = [op |-> "rebuild", data |-> Str(ret)]
  /\ ret' = None
  /\ err' = NoErr
  /\ old' = pkg
  /\ UNCHANGED <<sets, repo>>

NextPkg ==
  \/ \E t \in SpecStrings : Parse(Str(t))
  \/ \E d \in Dicts : Parse(Dict(d))
  \/ ToPkgSpec
  \/ Rebuild

SpecPkg == InitPkg /\ [][NextPkg]_vars

(***************************************************************************)
(* Repository.  Its fields hold Python values tagged with their type,      *)
(* since to_kickstart indexes baseurl (a list, or a str after a kickstart  *)
(* line was parsed) and calls join on the package lists.                   *)
(***************************************************************************)
RepoParseDict(r, d) ==
  [r EXCEPT !.name = Get(d, "n", r.name),
            !.stub = Get(d, "s", r.stub),
            !.baseurl = Get(d, "bu", r.baseurl),
            !.mirrorlist = Get(d, "ml", r.mirrorlist),
            !.metalink = Get(d, "ma", r.metalink),
            !.gpgkey = Get(d, "gk", r.gpgkey),
            !.enabled = Get(d, "e", r.enabled),
            !.gpgcheck = Get(d, "gc", r.gpgcheck),
            !.cost = Get(d, "c", r.cost),
            !.priority = Get(d, "p", r.priority),
            !.exclude = Get(d, "x", r.exclude),
            !.install = Get(d, "i", r.install),
            !.exclude_packages = Get(d, "xp", r.exclude_packages),
            !.include_packages = Get(d, "ip", r.include_packages),
            !.meta_expired = Get(d, "me", r.meta_expired)]

DigitChar == <<"0", "1", "2", "3", "4", "5", "6", "7", "8", "9">>

RECURSIVE Dec(_)
Dec(n) ==
  IF n < 10 THEN <<DigitChar[n + 1]>>
  ELSE Dec(n \div 10) \o <<DigitChar[(n % 10) + 1]>>

(* '{0}'.format(v) for a str, a non-negative int or None.                  *)
Format(v) ==
  CASE v.type = "str" -> v.val
    [] v.type = "int" -> Dec(v.val)
    [] v.type = "NoneType" -> <<"N", "o", "n", "e">>

(* len(v) and v[0] for a list or a str.                                    *)
PyLen(v) == IF v.type = "list" THEN Len(v.items) ELSE Len(v.val)

First(v) == IF v.type = "list" THEN v.items[1] ELSE Str(<<v.val[1]>>)

Clause(opt, text) == [opt |-> opt, val |-> text]

(* Faulty variant: three independent ifs instead of if / elif / elif.      *)
SourceClauses_NoElif(r) ==
  (IF r.baseurl # PyNone /\ PyLen(r.baseurl) # 0
   THEN <<Clause("--baseurl", Format(First(r.baseurl)))>> ELSE <<>>)
  \o (IF r.mirrorlist # PyNone
      THEN <<Clause("--mirrorlist", Format(r.mirrorlist))>> ELSE <<>>)
  \o (IF r.metalink # PyNone
      THEN <<Clause("--mirrorlist", Format(r.metalink))>> ELSE <<>>)

(* The if / elif / elif chain that renders the source of the repository.   *)
SourceClauses(r) ==
  IF r.baseurl # PyNone /\ PyLen(r.baseurl) # 0
  THEN <<Clause("--baseurl", Format(First(r.baseurl)))>>
  ELSE IF r.mirrorlist # PyNone
  THEN <<Clause("--mirrorlist", Format(r.mirrorlist))>>
  ELSE IF r.metalink # PyNone
  THEN <<Clause("--mirrorlist", Format(r.metalink))>>
  ELSE <<>>

(* v.join(','): a list has no join; a str joins the one-character ','.     *)
HasJoin(v) == v.type = "str"

RepoToKickstart(r) ==
  LET nameC == IF r.name # PyNone
               THEN <<Clause("--name", <<"\"">> \o Format(r.stub) \o <<"\"">>)>>
               ELSE <<>>
      costC == IF r.cost # PyNone
               THEN <<Clause("--cost", Format(r.cost))>> ELSE <<>>
      xpC == IF r.exclude_packages # PyNone
             THEN <<Clause("--exclude_packages", <<",">>)>> ELSE <<>>
      ipC == IF r.include_packages # PyNone
             THEN <<Clause("--exclude_packages", <<",">>)>> ELSE <<>>
      instC == IF r.install # PyNone THEN <<Clause("--install", <<>>)>> ELSE <<>>
  IN IF \/ r.exclude_packages # PyNone /\ ~HasJoin(r.exclude_packages)
        \/ r.include_packages # PyNone /\ ~HasJoin(r.include_packages)
     THEN [ret |-> PyNone, err |-> "AttributeError"]
     ELSE [ret |-> [type |-> "str",
                    clauses |-> nameC \o SourceClauses(r) \o costC \o xpC
                                \o ipC \o instC],
           err |-> NoErr]

(***************************************************************************)
(* Specification of one Repository object: parse calls with one-key        *)
(* compact dictionaries, and to_kickstart.                                 *)
(***************************************************************************)
Url(c) == Str(<<"h", "/", c>>)

RepoDictValues ==
  [n |-> {Str(Txt("n"))},
   s |-> {Str(Txt("s"))},
   bu |-> {PyNone, PyList(<<>>), PyList(<<Url("x")>>),
           PyList(<<Url("x"), Url("w")>>), Url("z")},
   ml |-> {PyNone, Url("y")},
   ma |-> {PyNone, Url("m")},
   c |-> {PyInt(15)},
   xp |-> {PyNone, PyList(<<Str(Txt("a"))>>)},
   ip |-> {PyNone, PyList(<<Str(Txt("b"))>>)},
   i |-> {PyBool(TRUE)}]

RepoDicts ==
  UNION {{[k \in {key} |-> v] : v \in RepoDictValues[key]} :
           key \in DOMAIN RepoDictValues}

InitRepo ==
  /\ repo = NoRepo
  /\ sets = [i \in SetIds |-> <<>>]
  /\ pkg = NoPkg
  /\ call = [op |-> "init"]
  /\ ret = PyNone
  /\ err = NoErr
  /\ old = NoRepo

RepoParse(d) ==
  /\ repo' = RepoParseDict(repo, d)
  /\ call' = [op |-> "parse", data |-> Dict(d)]
  /\ ret' = PyNone
  /\ err' = NoErr
  /\ old' = repo
  /\ UNCHANGED <<sets, pkg>>

ToKickstart ==
  LET r == RepoToKickstart(repo) IN
  /\ call' = [op |-> "to_kickstart"]
  /\ ret' = r.ret
  /\ err' = r.err
  /\ old' = repo
  /\ UNCHANGED <<repo, sets, pkg>>

NextRepo ==
  \/ \E d \in RepoDicts : RepoParse(d)
  \/ ToKickstart

SpecRepo == InitRepo /\ [][NextRepo]_vars

(***************************************************************************)
(* Properties of the PackageSet operations, checked under SpecSet.         *)
(***************************************************************************)
HasItem == call.op \in {"add", "discard", "update"}

EqualIdx(s, item) == {i \in 1..Len(s) : PkgEq(s[i], item)}

(* No two entries of s collide: same name means both have an arch and the  *)
(* archs differ; and no two entries are equal under Package equality.      *)
Unique(s) ==
  \A i, j \in 1..Len(s) :
    i # j =>
      /\ ~PkgEq(s[i], s[j])
      /\ s[i].name = s[j].name =>
           s[i].arch # None /\ s[j].arch # None /\ s[i].arch # s[j].arch

(* C1: every PackageSet reached by add, discard and union calls, and both  *)
(* sets returned by difference, hold no two entries that are equal: never  *)
(* the same name and arch twice, never an arch-less entry next to an       *)
(* arch-specific entry of the same name.                                   *)
C1_NoEqualEntries ==
  /\ \A id \in SetIds : Unique(sets[id])
  /\ (call.op = "union" /\ err = NoErr) => Unique(ret)
  /\ (call.op = "difference" /\ err = NoErr) => Unique(ret[1]) /\ Unique(ret[2])

(* An add of an arch-specific package met its arch-less twin in a set that *)
(* also holds another entry.                                               *)
C1_Witness ==
  /\ call.op = "add" /\ IsPackage(call.item) /\ call.item.arch # None
  /\ Len(old[call.self]) >= 2
  /\ \E i \in EqualIdx(old[call.self], call.item) : old[call.self][i].arch = None

(* C2: packages that are equal have the same hash key (the hash being an   *)
(* injective function of that key): here for the package passed to a set   *)
(* operation and every entry of a set that equals it.                      *)
C2_EqualImpliesSameHash ==
  (HasItem /\ IsPackage(call.item)) =>
    \A id \in SetIds : \A i \in EqualIdx(sets[id], call.item) :
      HashKey(sets[id][i]) = HashKey(call.item)

(* C3: add(item) appends item when no entry equals it; replaces the equal  *)
(* entry in place exactly when that entry has no arch and item has one;    *)
(* and otherwise changes nothing.  From a one-entry set holding the        *)
(* arch-less or arch-specific twin the result is the arch-specific one.    *)
C3_AddEffect ==
  (call.op = "add" /\ IsPackage(call.item)) =>
    LET s0 == old[call.self]
        s1 == sets[call.self]
        item == call.item
        eq == EqualIdx(s0, item)
        promo == {i \in eq : s0[i].arch = None /\ item.arch # None}
    IN /\ err = NoErr
       /\ \A id \in SetIds \ {call.self} : sets[id] = old[id]
       /\ eq = {} => s1 = Append(s0, item)
       /\ (eq # {} /\ promo = {}) => s1 = s0
       /\ promo # {} =>
            /\ Cardinality(promo) = 1
            /\ Len(s1) = Len(s0)
            /\ \A i \in 1..Len(s0) : s1[i] = IF i \in promo THEN item ELSE s0[i]
       /\ (Len(s0) = 1 /\ eq # {} /\ (s0[1].arch = None) # (item.arch = None)) =>
            s1 = <<IF item.arch # None THEN item ELSE s0[1]>>

(* add found an equal entry with the same arch but another version, behind *)
(* an earlier entry, and left the set alone.                               *)
C3_Witness ==
  /\ call.op = "add" /\ IsPackage(call.item) /\ call.item.arch # None
  /\ \E i \in EqualIdx(old[call.self], call.item) :
       /\ i >= 2
       /\ old[call.self][i].arch = call.item.arch
       /\ old[call.self][i] # call.item
  /\ sets = old

(* C4: update(item) completes without error and leaves item itself as the  *)
(* only entry of the set that equals item.                                 *)
C4_UpdateForcesReplacement ==
  (call.op = "update" /\ IsPackage(call.item)) =>
    /\ err = NoErr
    /\ \E i \in 1..Len(sets[call.self]) :
         /\ sets[call.self][i] = call.item
         /\ EqualIdx(sets[call.self], call.item) = {i}

(* Starting from the empty list, add every entry of every list in order.   *)
RECURSIVE AddInOrder(_, _)
AddInOrder(u, lists) ==
  IF lists = <<>> THEN u
  ELSE AddInOrder(AddAll(u, Head(lists)), Tail(lists))

(* C5: union(o1..on), n >= 1, all PackageSets, returns the set built from  *)
(* the empty set by adding self's entries and then each argument's entries *)
(* in order, and changes neither self nor any argument; {A} union          *)
(* {A with arch} is the one-entry set holding the arch-specific A.         *)
C5_UnionEffect ==
  (call.op = "union" /\ Len(call.args) >= 1
     /\ \A i \in 1..Len(call.args) : call.args[i] \in SetIds) =>
    /\ err = NoErr
    /\ ret = AddInOrder(<<>>, <<old[call.self]>> \o
                              [i \in 1..Len(call.args) |-> old[call.args[i]]])
    /\ sets = old
    /\ \A o \in SetIds :
         (call.args = <<o>> /\ Len(old[call.self]) = 1 /\ Len(old[o]) = 1
            /\ old[call.self][1].arch = None /\ old[o][1].arch # None
            /\ old[call.self][1].name = old[o][1].name) =>
           ret = old[o]

(* A union of two arguments in which an arch-less entry of self was        *)
(* promoted by an entry of an argument.                                    *)
C5_Witness ==
  /\ call.op = "union" /\ err = NoErr /\ Len(call.args) = 2
  /\ call.args[1] # call.args[2]
  /\ \E i \in 1..Len(sets[call.self]) :
       /\ sets[call.self][i].arch = None
       /\ i <= Len(ret) /\ ret[i].arch # None
       /\ ret[i].name = sets[call.self][i].name
  /\ Len(ret) >= 2

(* The entries of xs, in order, that equal no entry of o.                  *)
RECURSIVE Without(_, _)
Without(xs, o) ==
  IF xs = <<>> THEN <<>>
  ELSE (IF \E j \in 1..Len(o) : PkgEq(Head(xs), o[j]) THEN <<>> ELSE <<Head(xs)>>)
       \o Without(Tail(xs), o)

PairwiseUnequal(xs) ==
  \A i, j \in 1..Len(xs) : i # j => ~PkgEq(xs[i], xs[j])

(* C6: difference(other) returns (entries of self equal to no entry of     *)
(* other, entries of other equal to no entry of self), each in source      *)
(* order, and changes neither set; [A,B] against [B,C] gives ({A},{C}).    *)
C6_DifferenceEffect ==
  (call.op = "difference" /\ call.other \in SetIds) =>
    LET a == old[call.self]
        b == old[call.other]
    IN /\ err = NoErr
       /\ ret = <<Without(a, b), Without(b, a)>>
       /\ sets = old
       /\ (Len(a) = 2 /\ Len(b) = 2 /\ a[2] = b[1]
             /\ PairwiseUnequal(<<a[1], a[2], b[2]>>)) =>
            ret = << <<a[1]>>, <<b[2]>> >>

(* difference of [A,B] and [B,C] with A, B, C pairwise unequal.            *)
C6_Witness ==
  /\ call.op = "difference" /\ call.other \in SetIds /\ call.other # call.self
  /\ Len(sets[call.self]) = 2 /\ Len(sets[call.other]) = 2
  /\ sets[call.self][2] = sets[call.other][1]
  /\ PairwiseUnequal(<<sets[call.self][1], sets[call.self][2], sets[call.other][2]>>)
  /\ ret = << <<sets[call.self][1]>>, <<sets[call.other][2]>> >>

(* C7: a contract violation raises and leaves every set as it was: add or  *)
(* discard of a non-Package, difference with a non-PackageSet, union with  *)
(* a non-PackageSet argument at any position, union without arguments.     *)
C7_ContractViolations ==
  /\ (call.op \in {"add", "discard"} /\ ~IsPackage(call.item)) =>
       err = "TypeError" /\ sets = old
  /\ (call.op = "difference" /\ call.other \notin SetIds) =>
       err = "TypeError" /\ ret = None /\ sets = old
  /\ (call.op = "union" /\ \E i \in 1..Len(call.args) : call.args[i] \notin SetIds) =>
       err = "TypeError" /\ ret = None /\ sets = old
  /\ (call.op = "union" /\ Len(call.args) = 0) =>
       err = "Exception" /\ ret = None /\ sets = old

(* union of a non-empty receiver with a non-empty PackageSet followed by a *)
(* non-PackageSet raised.                                                  *)
C7_Witness ==
  /\ call.op = "union" /\ Len(call.args) = 2
  /\ call.args[1] \in SetIds /\ call.args[2] \notin SetIds
  /\ Len(sets[call.self]) >= 1 /\ Len(sets[call.args[1]]) >= 1
  /\ err = "TypeError"

(***************************************************************************)
(* Properties of Package parsing and rendering, checked under SpecPkg.     *)
(***************************************************************************)
FieldOfKey ==
  [n |-> "name", e |-> "epoch", v |-> "version", r |-> "release",
   a |-> "arch", z |-> "action"]

(* C8: decoding a compact dictionary overwrites each of name, epoch,       *)
(* version, release, arch and action exactly when its key is present and   *)
(* leaves every field whose key is absent at its previous value.           *)
C8_DictDecodeKeepsAbsent ==
  (call.op = "parse" /\ IsDict(call.data)) =>
    \A k \in DictKeys :
      pkg[FieldOfKey[k]] =
        IF k \in DOMAIN call.data.val THEN call.data.val[k]
        ELSE old[FieldOfKey[k]]

(* p was built from a spec string holding all five parts.                  *)
FromWellFormed(p) == \E t \in WellFormed : p = PkgNew(Str(t))

(* C9: for a Package p built from a well-formed spec string with all five  *)
(* parts, Package(p.to_pkg_spec()) has p's name, epoch, version, release   *)
(* and arch.                                                               *)
C9_SpecRoundTrip ==
  (call.op = "rebuild" /\ FromWellFormed(old)) =>
    /\ pkg.name = old.name
    /\ pkg.epoch = old.epoch
    /\ pkg.version = old.version
    /\ pkg.release = old.release
    /\ pkg.arch = old.arch

(***************************************************************************)
(* Properties of Repository.to_kickstart, checked under SpecRepo.          *)
(***************************************************************************)
RECURSIVE SourcesOf(_)
SourcesOf(cs) ==
  IF cs = <<>> THEN <<>>
  ELSE (IF Head(cs).opt \in {"--baseurl", "--mirrorlist"}
        THEN <<Head(cs)>> ELSE <<>>) \o SourcesOf(Tail(cs))

(* C10: to_kickstart emits at most one source clause, by the precedence    *)
(* baseurl > mirrorlist > metalink: the first element of a non-empty       *)
(* baseurl, otherwise mirrorlist when set, otherwise metalink when set.    *)
C10_KickstartSourcePrecedence ==
  (call.op = "to_kickstart" /\ err = NoErr) =>
    LET src == SourcesOf(ret.clauses) IN
    /\ Len(src) <= 1
    /\ (repo.baseurl # PyNone /\ PyLen(repo.baseurl) >= 1) =>
         /\ Len(src) = 1 /\ src[1].opt = "--baseurl"
         /\ src[1].val = Format(First(repo.baseurl))
    /\ (~(repo.baseurl # PyNone /\ PyLen(repo.baseurl) >= 1)
          /\ repo.mirrorlist # PyNone) =>
         /\ Len(src) = 1 /\ src[1].val = Format(repo.mirrorlist)
    /\ (~(repo.baseurl # PyNone /\ PyLen(repo.baseurl) >= 1)
          /\ repo.mirrorlist = PyNone /\ repo.metalink # PyNone) =>
         /\ Len(src) = 1 /\ src[1].val = Format(repo.metalink)
    /\ (~(repo.baseurl # PyNone /\ PyLen(repo.baseurl) >= 1)
          /\ repo.mirrorlist = PyNone /\ repo.metalink = PyNone) =>
         src = <<>>

(* to_kickstart rendered a Repository that has a two-element baseurl, a    *)
(* mirrorlist and a metalink.                                              *)
C10_Witness ==
  /\ call.op = "to_kickstart" /\ err = NoErr
  /\ repo.baseurl # PyNone /\ PyLen(repo.baseurl) = 2
  /\ repo.mirrorlist # PyNone /\ repo.metalink # PyNone
  /\ repo.name # PyNone

====
